---- MODULE Spec2Model ----
(***************************************************************************)
(* Boot-image unpacking, as implemented by the two scripts of the          *)
(* repository:                                                             *)
(*   "single" : scripts/unpack_bootimg.py          (BootImageHeader.parse, *)
(*              unpack_bootimg, main) - one self-contained strategy        *)
(*   "dual"   : scripts/scripts/unpack_bootimg.py  (try_abootimg_extract,  *)
(*              try_minimal_parse, main) - delegated tool, then fallback   *)
(* An input image is a byte buffer; the model keeps its length, its first  *)
(* eight bytes, the ten 32-bit header words and the layout of its body,    *)
(* and computes every byte of the buffer from them (ByteAt).               *)
(* scripts/unpack_bootimg.py is modelled as Python 3.12 or later runs it   *)
(* (an older interpreter rejects the backslash inside its f-strings and    *)
(* runs nothing of it).                                                    *)
(***************************************************************************)
EXTENDS Integers, Sequences, FiniteSets, TLC

VARIABLES variant, img, pc, dirCreated, files, info, delegated, err, status, offs

vars == <<variant, img, pc, dirCreated, files, info, delegated, err, status, offs>>

(***************************************************************************)
(* Program constants                                                       *)
(***************************************************************************)
\* b'ANDROID!'
ANDROID_MAGIC == <<65, 78, 68, 82, 79, 73, 68, 33>>

\* struct.calcsize('<8s10I16s512s8I'): what struct.unpack_from needs
LegacyHeaderSize == 608

\* BootImageHeader.parse: if len(data) < 1632
ExtendedHeaderSize == 1632

\* struct.calcsize('<11I16s512s32s1024sIQI') = 44 + 1584 + 4 + 8 + 4
ExtendedFmtSize == 1644

\* try_minimal_parse: if page_size == 0: page_size = 2048
DefaultPageSize == 2048

kernel_candidates == <<"zImage", "kernel", "zImage-dtb", "Image.gz-dtb", "Image.lz4-dtb", "Image">>

ramdisk_candidates == <<"initrd.img", "ramdisk.img", "ramdisk.gz", "ramdisk.cpio.gz", "initramfs.cpio.gz">>

(***************************************************************************)
(* Bounds of the inputs                                                    *)
(***************************************************************************)
MaxKernelSize == 2049
MaxRamdiskSize == 200
MaxSecondSize == 30
MaxDtSize == 50
MaxVersion == 2

BADMAGIC == <<66, 65, 68, 77, 65, 71, 73, 67>>

Min(a, b) == IF a < b THEN a ELSE b

\* ceil(x / p) * p, computed without the code's rounding idiom
CeilDiv(x, p) == IF x % p = 0 THEN x \div p ELSE (x \div p) + 1
Align(x, p) == CeilDiv(x, p) * p

(***************************************************************************)
(* Input images                                                            *)
(***************************************************************************)
\* the ten 32-bit words at byte offsets 8, 12, ..., 44
HeaderWords(k, r, s, p, f40) == <<k, 32768, r, 16777216, s, 0, 256, p, f40, 7>>

\* the page size the image was built with (a zero field means the default)
BuiltPage(w) == IF w[8] = 0 THEN 2048 ELSE w[8]

\* where the builder of the image put each payload
BuiltKernelOff(w) == BuiltPage(w)
BuiltRamdiskOff(w) == BuiltKernelOff(w) + Align(w[1], BuiltPage(w))
BuiltSecondOff(w) == BuiltRamdiskOff(w) + Align(w[3], BuiltPage(w))
BuiltDtOff(w) == BuiltSecondOff(w) + Align(w[5], BuiltPage(w))

\* in a v0 image the word at offset 40 is the device-tree size; in a v1+
\* image it is the header version and there is no device tree
BuiltDtSize(w, layout) == IF layout = "v0" THEN w[9] ELSE 0

\* length of the complete container (a v1+ image carries a recovery DTBO
\* after the second stage)
FullLen(w, layout) == BuiltDtOff(w) + (IF layout = "v0" THEN w[9] ELSE MaxDtSize)

\* header words paired with the layout the image really has
WordSets ==
    { <<HeaderWords(k, r, s, p, f), "v0">> :
        k \in {0, 100, MaxKernelSize}, r \in {0, MaxRamdiskSize},
        s \in {0, MaxSecondSize}, p \in {0, 2048, 4096}, f \in {0, MaxDtSize} }
    \cup
    { <<HeaderWords(k, r, s, p, f), "v1">> :
        k \in {0, 100, MaxKernelSize}, r \in {0, MaxRamdiskSize},
        s \in {0, MaxSecondSize}, p \in {0, 2048, 4096}, f \in 1..MaxVersion }

Image(head, len, w, layout) ==
    [exists |-> TRUE, head |-> SubSeq(head, 1, Min(len, 8)), len |-> len,
     words |-> w, layout |-> layout, fill |-> 255]

\* lengths of a buffer holding the image: complete, cut one byte short, and
\* cut right after the kernel
ImageLens(w, layout) ==
    {FullLen(w, layout), FullLen(w, layout) - 1, BuiltKernelOff(w) + w[1]}

\* images with the signature
GoodImages ==
    UNION { { Image(ANDROID_MAGIC, len, wl[1], wl[2]) : len \in ImageLens(wl[1], wl[2]) } :
            wl \in WordSets }

\* the example of the offset formula (kernel of 12345 bytes, 2048-byte
\* pages), as a bare header
ExampleImages ==
    { Image(ANDROID_MAGIC, len, HeaderWords(12345, 0, 0, 2048, 0), "v0") :
        len \in {LegacyHeaderSize, ExtendedHeaderSize, ExtendedFmtSize} }

\* buffers around the two header lengths, with and without the signature
EdgeImages ==
    { Image(head, len, HeaderWords(100, MaxRamdiskSize, 0, 2048, 0), "v0") :
        head \in {ANDROID_MAGIC, BADMAGIC},
        len \in {0, 4, 8, LegacyHeaderSize - 1, LegacyHeaderSize,
                 ExtendedHeaderSize - 1, ExtendedHeaderSize, ExtendedFmtSize,
                 FullLen(HeaderWords(100, MaxRamdiskSize, 0, 2048, 0), "v0")} }

\* an input path that names no file
MissingImage ==
    [exists |-> FALSE, head |-> <<>>, len |-> 0,
     words |-> HeaderWords(0, 0, 0, 0, 0), layout |-> "v0", fill |-> 255]

Images == GoodImages \cup ExampleImages \cup EdgeImages \cup {MissingImage}

InRange(i, off, size) == off <= i /\ i < off + size

\* byte b (0..3) of the little-endian encoding of a 32-bit word
LEByte(v, b) == (v \div (256 ^ b)) % 256

\* where the payloads lie in the buffer of an image
BuiltLayout(image) ==
    LET w == image.words IN
    [kernel |-> BuiltKernelOff(w), ramdisk |-> BuiltRamdiskOff(w),
     second |-> BuiltSecondOff(w), dt |-> BuiltDtOff(w),
     dt_size |-> BuiltDtSize(w, image.layout)]

\* the byte at offset i (0-based, i < image.len) of the buffer, given the
\* layout of its payloads: signature, header words (little-endian), zeroed
\* text fields, then the payloads, each with its own byte pattern, in filler
ByteIn(image, lay, i) ==
    LET w == image.words IN
    IF i < 8 THEN image.head[i + 1]
    ELSE IF i < 48 THEN LEByte(w[((i - 8) \div 4) + 1], (i - 8) % 4)
    ELSE IF i < LegacyHeaderSize THEN 0
    ELSE IF InRange(i, lay.kernel, w[1]) THEN 1 + ((i - lay.kernel) % 100)
    ELSE IF InRange(i, lay.ramdisk, w[3]) THEN 101 + ((i - lay.ramdisk) % 100)
    ELSE IF InRange(i, lay.second, w[5]) THEN 201 + ((i - lay.second) % 20)
    ELSE IF InRange(i, lay.dt, lay.dt_size) THEN 221 + ((i - lay.dt) % 20)
    ELSE image.fill

ByteAt(image, i) == ByteIn(image, BuiltLayout(image), i)

(***************************************************************************)
(* Python primitives used by the scripts                                   *)
(***************************************************************************)
\* data[a:b] for 0 <= a <= b: both ends are clamped to len(data).  (The
\* ends and the layout are bound by the set constructor, so that they are
\* computed once for the slice and not once for each byte.)
Slice(image, a, b) ==
    CHOOSE bytes \in
        { [j \in 1..(hi - lo) |-> ByteIn(image, lay, lo + j - 1)] :
            lo \in {Min(a, image.len)}, hi \in {Min(b, image.len)},
            lay \in {BuiltLayout(image)} } : TRUE

\* struct '<I' at byte offset off
U32(image, off) ==
    ByteAt(image, off) + 256 * ByteAt(image, off + 1)
    + 65536 * ByteAt(image, off + 2) + 16777216 * ByteAt(image, off + 3)

\* bytes.split(b'\x00', 1)[0] of the n-byte field at off: the bytes before
\* the first null
FirstNull(image, off, n) ==
    CHOOSE e \in 0..n :
        /\ e = n \/ ByteAt(image, off + e) = 0
        /\ \A j \in 0..(e - 1) : ByteAt(image, off + j) # 0

CStr(image, off, n) ==
    [j \in 1..FirstNull(image, off, n) |-> ByteAt(image, off + j - 1)]

\* len(data[a:b])
SliceLen(image, a, b) == Min(b, image.len) - Min(a, image.len)

\* f"{n}"
Dec(n) == ToString(n)

NoFiles == [n \in {} |-> <<>>]

NoOffsets == [computed |-> FALSE, page |-> 0, kernel |-> 0, ramdisk |-> 0, second |-> 0, dt |-> 0]

\* writing the files of new into a directory holding old
WriteFiles(old, new) ==
    [n \in (DOMAIN old) \cup (DOMAIN new) |-> IF n \in DOMAIN new THEN new[n] ELSE old[n]]

(***************************************************************************)
(* scripts/scripts/unpack_bootimg.py: the delegated tool                   *)
(***************************************************************************)
\* what one run of `abootimg -x` can leave behind: it is not found, it exits
\* non-zero, or it exits 0 with some files in the temporary directory; its
\* bootimg.cfg, when there is one, is "plain" (key = value lines) or
\* "escaped" (lines in which val's pattern finds a match)
ToolNames == {"zImage", "kernel", "initrd.img", "ramdisk.gz"}

ToolRuns ==
    { [run |-> r, tmp |-> {}, cfg |-> "absent"] : r \in {"missing", "nonzero"} }
    \cup
    { [run |-> "ok", tmp |-> t, cfg |-> c] :
        t \in SUBSET ToolNames, c \in {"absent", "plain", "escaped"} }

\* the bytes the tool wrote under a name
ToolBytes(name) ==
    CASE name = "zImage" -> <<31, 139, 1>>
      [] name = "kernel" -> <<31, 139, 2>>
      [] name = "initrd.img" -> <<31, 139, 3>>
      [] name = "ramdisk.gz" -> <<31, 139, 4>>
      [] name = "plain" -> <<112, 97, 103, 101>>
      [] OTHER -> <<92, 83>>

\* next((f for f in candidates if os.path.exists(...)), None)
FirstExisting(candidates, tmp) ==
    LET idx == { i \in 1..Len(candidates) : candidates[i] \in tmp } IN
    IF idx = {} THEN "None"
    ELSE candidates[CHOOSE i \in idx : \A q \in idx : i <= q]

\* val(key, default): the pattern r'^%s\\s*=\\s*(\\S+)' asks for a literal
\* backslash after the key, so it matches only in an "escaped" cfg, and its
\* group is then the backslash-S text
val(cfg, key, default) == IF cfg = "escaped" THEN "\\S" ELSE default

\* a text value is kept as its bytes; this is the empty text
EmptyText == <<>>

InfoLine(k, v) == [key |-> k, val |-> v]

\* the bootimg.info written from bootimg.cfg
AbootimgInfo(cfg) ==
    << InfoLine("kernel_size", "0"),
       InfoLine("kernel_addr", val(cfg, "kerneladdr", "0")),
       InfoLine("ramdisk_size", "0"),
       InfoLine("ramdisk_addr", val(cfg, "ramdiskaddr", "0")),
       InfoLine("second_size", "0"),
       InfoLine("second_addr", "0"),
       InfoLine("tags_addr", val(cfg, "tagsaddr", "0")),
       InfoLine("page_size", val(cfg, "pagesize", "2048")),
       InfoLine("dt_size", "0"),
       InfoLine("header_version", "0"),
       InfoLine("os_version", "0"),
       InfoLine("name", EmptyText),
       InfoLine("cmdline", EmptyText),
       InfoLine("extra_cmdline", EmptyText) >>

\* the files copied into the output directory once both sources are found
AbootimgCopies(kernel_src, ramdisk_src, cfg) ==
    [n \in {"kernel", "ramdisk.img"} \cup (IF cfg = "absent" THEN {} ELSE {"bootimg.cfg"}) |->
        IF n = "kernel" THEN ToolBytes(kernel_src)
        ELSE IF n = "ramdisk.img" THEN ToolBytes(ramdisk_src)
        ELSE ToolBytes(cfg)]

\* faulty variant of AbootimgFailed: the kernel is copied before the check for the
\* ramdisk, so a failed attempt leaves a file behind
AbootimgFailedAfterCopy(why) ==
    [ok |-> FALSE, why |-> why, files |-> [n \in {"kernel"} |-> ToolBytes("zImage")], info |-> <<>>]

\* return False of try_abootimg_extract: nothing has been written yet
AbootimgFailed(why) == [ok |-> FALSE, why |-> why, files |-> NoFiles, info |-> <<>>]

try_abootimg_extract(tool) ==
    LET kernel_src == FirstExisting(kernel_candidates, tool.tmp)
        ramdisk_src == FirstExisting(ramdisk_candidates, tool.tmp)
    IN
    IF tool.run # "ok" THEN AbootimgFailed(tool.run)
    ELSE IF kernel_src = "None" \/ ramdisk_src = "None" THEN AbootimgFailed("absent")
    ELSE [ok |-> TRUE, why |-> "ok",
          files |-> AbootimgCopies(kernel_src, ramdisk_src, tool.cfg),
          info |-> IF tool.cfg = "absent" THEN <<>> ELSE AbootimgInfo(tool.cfg)]

(***************************************************************************)
(* scripts/scripts/unpack_bootimg.py: the minimal parser                   *)
(***************************************************************************)
\* faulty variant of startswith_magic: only the first four bytes are compared
startswith_magic4(image) == Slice(image, 0, 4) = SubSeq(ANDROID_MAGIC, 1, 4)

\* data.startswith(ANDROID_MAGIC)
startswith_magic(image) == Slice(image, 0, 8) = ANDROID_MAGIC

\* hdr[n], n in 1..10, of struct.unpack_from('<8s10I16s512s8I', data, 0)
hdr(image, n) == U32(image, 4 + 4 * n)

\* faulty variant of align_up: rounds down
align_up_floor(x, page_size) == (x \div page_size) * page_size

align_up(x, page_size) == ((x + page_size - 1) \div page_size) * page_size

\* faulty variant of effective_page_size: another default
effective_page_size_4096(page_size) == IF page_size = 0 THEN 4096 ELSE page_size

\* if page_size == 0: page_size = 2048
effective_page_size(page_size) == IF page_size = 0 THEN DefaultPageSize ELSE page_size

MinimalOffsets(kernel_size, ramdisk_size, second_size, page_size) ==
    LET kernel_off == page_size
        ramdisk_off == align_up(kernel_off + kernel_size, page_size)
        second_off == align_up(ramdisk_off + ramdisk_size, page_size)
        dt_off == align_up(second_off + second_size, page_size)
    IN [computed |-> TRUE, page |-> page_size, kernel |-> kernel_off,
        ramdisk |-> ramdisk_off, second |-> second_off, dt |-> dt_off]

\* the component files written by try_minimal_parse
MinimalFiles(image, kernel_size, ramdisk_size, second_size, dt_size, o) ==
    LET names == (IF kernel_size > 0 THEN {"kernel"} ELSE {})
                 \cup (IF ramdisk_size > 0 THEN {"ramdisk.img"} ELSE {})
                 \cup (IF second_size > 0 THEN {"second"} ELSE {})
                 \cup (IF dt_size > 0 /\ o.dt + dt_size <= image.len THEN {"dt.img"} ELSE {})
    IN [n \in names |->
        IF n = "kernel" THEN Slice(image, o.kernel, o.kernel + kernel_size)
        ELSE IF n = "ramdisk.img" THEN Slice(image, o.ramdisk, o.ramdisk + ramdisk_size)
        ELSE IF n = "second" THEN Slice(image, o.second, o.second + second_size)
        ELSE Slice(image, o.dt, o.dt + dt_size)]

\* the bootimg.info written by try_minimal_parse; name and cmdline are the
\* bytes of the fields up to the first null
MinimalInfo(kernel_size, ramdisk_size, second_size, page_size, dt_size, os_version, name, cmdline) ==
    << InfoLine("kernel_size", Dec(kernel_size)),
       InfoLine("kernel_addr", "0x0"),
       InfoLine("ramdisk_size", Dec(ramdisk_size)),
       InfoLine("ramdisk_addr", "0x0"),
       InfoLine("second_size", Dec(second_size)),
       InfoLine("second_addr", "0x0"),
       InfoLine("tags_addr", "0x0"),
       InfoLine("page_size", Dec(page_size)),
       InfoLine("dt_size", Dec(dt_size)),
       InfoLine("header_version", "0"),
       InfoLine("os_version", Dec(os_version)),
       InfoLine("name", name),
       InfoLine("cmdline", cmdline),
       InfoLine("extra_cmdline", EmptyText) >>

ParseFailed(e, made) ==
    [ok |-> FALSE, err |-> e, mkdir |-> made, files |-> NoFiles, info |-> <<>>, offs |-> NoOffsets]

try_minimal_parse(image) ==
    IF ~image.exists THEN ParseFailed("FileNotFoundError", FALSE)
    ELSE IF ~startswith_magic(image) THEN ParseFailed("InvalidMagic", FALSE)
    ELSE IF image.len < LegacyHeaderSize THEN ParseFailed("TruncatedHeader", FALSE)
    ELSE
        LET kernel_size == hdr(image, 1)
            ramdisk_size == hdr(image, 3)
            second_size == hdr(image, 5)
            page_size == effective_page_size(hdr(image, 8))
            dt_size == hdr(image, 9)
            os_version == hdr(image, 10)
            name == CStr(image, 48, 16)
            cmdline == CStr(image, 64, 512)
            o == MinimalOffsets(kernel_size, ramdisk_size, second_size, page_size)
        IN [ok |-> TRUE, err |-> "none", mkdir |-> TRUE,
            files |-> MinimalFiles(image, kernel_size, ramdisk_size, second_size, dt_size, o),
            info |-> MinimalInfo(kernel_size, ramdisk_size, second_size, page_size,
                                 dt_size, os_version, name, cmdline),
            offs |-> o]

(***************************************************************************)
(* scripts/unpack_bootimg.py                                               *)
(***************************************************************************)
\* BootImageHeader.parse: the exception it raises, or "none".  The length is
\* checked before the magic.  struct.unpack wants exactly
\* calcsize('<11I16s512s32s1024sIQI') = 1644 bytes and is handed
\* data[8:1632], so it raises struct.error on every buffer that passes the
\* two checks; were the sizes to agree, fields[10] (the eleventh integer)
\* would be stored as the name and unpack_bootimg would stop at
\* header.name.rstrip with an AttributeError.
BootImageHeader_parse(image) ==
    IF image.len < ExtendedHeaderSize THEN "TruncatedHeader"
    ELSE IF Slice(image, 0, 8) # ANDROID_MAGIC THEN "InvalidMagic"
    ELSE IF SliceLen(image, 8, ExtendedHeaderSize) # ExtendedFmtSize THEN "struct.error"
    ELSE "AttributeError"

\* the two ValueErrors are caught (return False); any other exception leaves
\* unpack_bootimg and ends the process.  Either way nothing is written after
\* os.makedirs.
unpack_bootimg(image) ==
    IF ~image.exists THEN ParseFailed("NotFound", FALSE)
    ELSE ParseFailed(BootImageHeader_parse(image), TRUE)

align_size(size, page_size) == ((size + page_size - 1) \div page_size) * page_size

\* "Calculate offsets" of unpack_bootimg
UnpackOffsets(kernel_size, ramdisk_size, second_size, page_size) ==
    LET kernel_offset == page_size
        ramdisk_offset == kernel_offset + align_size(kernel_size, page_size)
        second_offset == ramdisk_offset + align_size(ramdisk_size, page_size)
        dt_offset == second_offset + align_size(second_size, page_size)
    IN [computed |-> TRUE, page |-> page_size, kernel |-> kernel_offset,
        ramdisk |-> ramdisk_offset, second |-> second_offset, dt |-> dt_offset]

(***************************************************************************)
(* The two programs                                                        *)
(***************************************************************************)
\* sys.exit(0 if ok else 1); an uncaught exception also ends with status 1
ExitStatus(ok) == IF ok THEN 0 ELSE 1

\* faulty variant of AfterDelegated: the fallback runs whatever the tool returned
AfterDelegatedAlwaysFallback(ok) == "TrySelfParsed"

\* main of scripts/scripts: exit after a delegated success, else fall back
AfterDelegated(ok) == IF ok THEN "Extracted" ELSE "TrySelfParsed"

Init ==
    /\ variant \in {"single", "dual"}
    /\ img \in Images
    /\ pc = "Start"
    /\ dirCreated = FALSE
    /\ files = NoFiles
    /\ info = <<>>
    /\ delegated = "none"
    /\ err = "none"
    /\ status = -1
    /\ offs = NoOffsets

\* scripts/unpack_bootimg.py main: unpack_bootimg, then sys.exit
MainSingle ==
    /\ variant = "single"
    /\ pc = "Start"
    /\ \E r \in {unpack_bootimg(img)} :
        /\ dirCreated' = r.mkdir
        /\ files' = WriteFiles(files, r.files)
        /\ info' = r.info
        /\ err' = r.err
        /\ offs' = r.offs
        /\ status' = ExitStatus(r.ok)
        /\ pc' = IF r.ok THEN "Extracted" ELSE "Failed"
    /\ UNCHANGED <<variant, img, delegated>>

\* scripts/scripts/unpack_bootimg.py main, up to os.makedirs(args.outdir)
MainDual ==
    /\ variant = "dual"
    /\ pc = "Start"
    /\ dirCreated' = TRUE
    /\ pc' = "TryDelegated"
    /\ UNCHANGED <<variant, img, files, info, delegated, err, status, offs>>

\* if try_abootimg_extract(...): sys.exit(0)
TryDelegated ==
    /\ pc = "TryDelegated"
    /\ \E tool \in ToolRuns :
        \E r \in {try_abootimg_extract(tool)} :
        /\ files' = WriteFiles(files, r.files)
        /\ info' = IF r.info = <<>> THEN info ELSE r.info
        /\ delegated' = r.why
        /\ pc' = AfterDelegated(r.ok)
        /\ status' = IF pc' = "Extracted" THEN ExitStatus(TRUE) ELSE status
    /\ UNCHANGED <<variant, img, dirCreated, err, offs>>

\* ok = try_minimal_parse(...); sys.exit(0 if ok else 1)
TrySelfParsed ==
    /\ pc = "TrySelfParsed"
    /\ \E r \in {try_minimal_parse(img)} :
        /\ files' = WriteFiles(files, r.files)
        /\ info' = IF r.info = <<>> THEN info ELSE r.info
        /\ err' = r.err
        /\ offs' = r.offs
        /\ status' = ExitStatus(r.ok)
        /\ pc' = IF r.ok THEN "Extracted" ELSE "Failed"
    /\ UNCHANGED <<variant, img, dirCreated, delegated>>

Next == MainSingle \/ MainDual \/ TryDelegated \/ TrySelfParsed

Spec == Init /\ [][Next]_vars

\* a run of either script is one sequential process: it keeps taking steps
\* until it exits
FairSpec == Spec /\ WF_vars(Next)

(***************************************************************************)
(* Vocabulary of the properties                                            *)
(***************************************************************************)
Terminal == pc \in {"Extracted", "Failed"}

DelegatedFailures == {"missing", "nonzero", "absent"}

\* the run has ended and the self-contained parser was the strategy that ran
SelfParserRan ==
    Terminal /\ (variant = "single" \/ delegated \in DelegatedFailures)

\* the buffer exists and its first 8 bytes are the signature
HasSignature(image) ==
    /\ image.exists
    /\ image.len >= 8
    /\ Len(image.head) = 8
    /\ \A i \in 1..8 : image.head[i] = ANDROID_MAGIC[i]

\* the documented keys of bootimg.info
InfoKeys == <<"kernel_size", "kernel_addr", "ramdisk_size", "ramdisk_addr",
              "second_size", "second_addr", "tags_addr", "page_size", "dt_size",
              "header_version", "os_version", "name", "cmdline", "extra_cmdline">>

InfoComplete ==
    /\ Len(info) = Len(InfoKeys)
    /\ \A i \in 1..Len(InfoKeys) : info[i].key = InfoKeys[i]

InfoVal(key) == info[CHOOSE i \in 1..Len(info) : info[i].key = key].val

\* the four components: artifact name, declared size, computed offset
Components ==
    { [name |-> "kernel", size |-> img.words[1], off |-> offs.kernel],
      [name |-> "ramdisk.img", size |-> img.words[3], off |-> offs.ramdisk],
      [name |-> "second", size |-> img.words[5], off |-> offs.second],
      [name |-> "dt.img", size |-> img.words[9], off |-> offs.dt] }

\* the payloads the builder of the image injected
KernelPayload(image) == [j \in 1..image.words[1] |-> 1 + ((j - 1) % 100)]
RamdiskPayload(image) == [j \in 1..image.words[3] |-> 101 + ((j - 1) % 100)]

\* a container with the signature, a positive page size and both mandatory
\* payloads in place
WellFormedContainer(image) ==
    /\ HasSignature(image)
    /\ image.words[8] > 0
    /\ image.words[1] > 0
    /\ image.words[3] > 0
    /\ image.len >= BuiltRamdiskOff(image.words) + image.words[3]

\* a complete legacy-layout (v0) image
WellFormedLegacy(image) ==
    /\ HasSignature(image)
    /\ image.layout = "v0"
    /\ image.words[1] > 0
    /\ image.words[3] > 0
    /\ image.len = FullLen(image.words, image.layout)

\* the same image with another page-size field
WithPage(image, p) == [image EXCEPT !.words[8] = p]

\* what the self-contained parser of a variant does with an image
ParserOutcome(v, image) ==
    IF v = "single" THEN unpack_bootimg(image) ELSE try_minimal_parse(image)

(***************************************************************************)
(* C1                                                                      *)
(***************************************************************************)
\* C1: after the self-contained parser has extracted, each of kernel,
\* ramdisk.img, second and dt.img is in the output directory if and only if
\* its declared size is positive and its range [off, off + size) lies inside
\* the buffer.
C1_ArtifactIffInBounds ==
    (pc = "Extracted" /\ SelfParserRan) =>
        \A c \in Components :
            (c.name \in DOMAIN files) <=> (c.size > 0 /\ c.off + c.size <= img.len)

(***************************************************************************)
(* C2                                                                      *)
(***************************************************************************)
C2Step ==
    \/ pc = "Start" /\ pc' = "TryDelegated" /\ delegated' = "none"
    \/ pc = "TryDelegated" /\ pc' = "Extracted" /\ delegated' = "ok"
    \/ pc = "TryDelegated" /\ pc' = "TrySelfParsed" /\ delegated' \in DelegatedFailures
    \/ /\ pc = "TrySelfParsed"
       /\ delegated \in DelegatedFailures
       /\ delegated' = delegated
       /\ pc' \in {"Extracted", "Failed"}
       /\ WellFormedLegacy(img) => pc' = "Extracted"

\* C2: every step of the two-strategy script is Start -> TryDelegated,
\* TryDelegated -> Extracted (the tool succeeded), TryDelegated ->
\* TrySelfParsed (the tool is missing, exited non-zero or left no kernel or
\* ramdisk) or TrySelfParsed -> Extracted | Failed; no step leaves Extracted
\* or Failed; a well-formed legacy image reaches Extracted through the
\* self-contained parser; and every run ends in Extracted or Failed.
C2_StateMachine ==
    /\ [][variant = "dual" => C2Step]_vars
    /\ <>(pc \in {"Extracted", "Failed"})

C2_Witness ==
    /\ variant = "dual"
    /\ pc = "Extracted"
    /\ delegated = "missing"
    /\ WellFormedLegacy(img)
    /\ "kernel" \in DOMAIN files

(***************************************************************************)
(* C3                                                                      *)
(***************************************************************************)
BadMagicRun == Terminal /\ SelfParserRan /\ img.exists /\ ~HasSignature(img)

NothingWritten == DOMAIN files = {} /\ info = <<>>

\* C3 as stated: for a buffer of any length whose first 8 bytes are not the
\* signature, the self-contained parser fails with InvalidMagic, the run
\* reports failure and nothing is written.
C3_BadMagicIsInvalidMagic ==
    BadMagicRun =>
        err = "InvalidMagic" /\ pc = "Failed" /\ status = 1 /\ NothingWritten

\* C3 as amended: for such a buffer the run reports failure and nothing is
\* written; the error is InvalidMagic, except that BootImageHeader.parse
\* reports a buffer shorter than 1632 bytes as too small before it looks at
\* the magic.
C3_BadMagicFails ==
    BadMagicRun =>
        /\ err = (IF variant = "single" /\ img.len < ExtendedHeaderSize
                  THEN "TruncatedHeader" ELSE "InvalidMagic")
        /\ pc = "Failed"
        /\ status = 1
        /\ NothingWritten

C3_Witness ==
    /\ BadMagicRun
    /\ variant = "dual"
    /\ img.len < LegacyHeaderSize
    /\ err = "InvalidMagic"
    /\ status = 1

(***************************************************************************)
(* C4                                                                      *)
(***************************************************************************)
\* C4: when the page-size field of a header with valid magic is 0, the run
\* of the self-contained parser ends exactly as it does on the same image
\* with a page-size field of 2048 (same offsets, same files with the same
\* bytes, same bootimg.info, same result), and not in a division by zero.
C4_ZeroPageIsDefault ==
    (SelfParserRan /\ HasSignature(img) /\ img.words[8] = 0) =>
        \E r \in {ParserOutcome(variant, WithPage(img, 2048))} :
            /\ offs = r.offs
            /\ files = r.files
            /\ info = r.info
            /\ err = r.err
            /\ status = ExitStatus(r.ok)
            /\ err # "ZeroDivisionError"

C4_Witness ==
    /\ SelfParserRan
    /\ variant = "dual"
    /\ pc = "Extracted"
    /\ img.words[8] = 0
    /\ offs.computed
    /\ offs.kernel = 2048
    /\ "kernel" \in DOMAIN files
    /\ files["kernel"] = KernelPayload(img)
    /\ "ramdisk.img" \in DOMAIN files
    /\ files["ramdisk.img"] = RamdiskPayload(img)

(***************************************************************************)
(* C5                                                                      *)
(***************************************************************************)
\* C5: unpacking a well-formed container (valid magic, positive page size,
\* kernel and ramdisk payloads at the page-aligned offsets) with the
\* self-contained parser yields files named kernel and ramdisk.img whose
\* bytes are the injected payloads.
C5_RoundTrip ==
    (SelfParserRan /\ WellFormedContainer(img)) =>
        /\ "kernel" \in DOMAIN files
        /\ "ramdisk.img" \in DOMAIN files
        /\ files["kernel"] = KernelPayload(img)
        /\ files["ramdisk.img"] = RamdiskPayload(img)

(***************************************************************************)
(* C6                                                                      *)
(***************************************************************************)
\* C6: the offsets computed for page size p are kernel = p, ramdisk =
\* kernel + align(kernelSize, p), second = ramdisk + align(ramdiskSize, p),
\* dt = second + align(secondSize, p) with align(x, p) = ceil(x / p) * p;
\* they are non-decreasing multiples of p; p = 2048 and kernelSize = 12345
\* give ramdisk = 16384; and the offset + align(size) form of
\* unpack_bootimg gives the same four offsets as the align(offset + size)
\* form of try_minimal_parse.
C6_Offsets ==
    offs.computed =>
        LET p == offs.page
            k == img.words[1]
            r == img.words[3]
            s == img.words[5]
        IN
        /\ p > 0
        /\ img.words[8] > 0 => p = img.words[8]
        /\ offs.kernel = p
        /\ offs.ramdisk = offs.kernel + Align(k, p)
        /\ offs.second = offs.ramdisk + Align(r, p)
        /\ offs.dt = offs.second + Align(s, p)
        /\ offs.kernel <= offs.ramdisk /\ offs.ramdisk <= offs.second /\ offs.second <= offs.dt
        /\ \A o \in {offs.kernel, offs.ramdisk, offs.second, offs.dt} : o % p = 0
        /\ (p = 2048 /\ k = 12345) => offs.ramdisk = 16384
        /\ UnpackOffsets(k, r, s, p) = offs

C6_Witness ==
    /\ offs.computed
    /\ offs.page = 2048
    /\ img.words[8] = 2048
    /\ img.words[1] = 12345
    /\ offs.ramdisk = 16384

(***************************************************************************)
(* C7                                                                      *)
(***************************************************************************)
\* C7: after every successful unpack, whichever strategy succeeded, the
\* output directory holds a bootimg.info with exactly the 14 documented
\* keys, each once.
C7_InfoAlwaysComplete == pc = "Extracted" => InfoComplete

(***************************************************************************)
(* C8                                                                      *)
(***************************************************************************)
\* C8: a run ends with status 0 only if kernel and ramdisk.img are in the
\* output directory and bootimg.info has been written, and with a non-zero
\* status whenever no strategy succeeded.
C8_ExitZeroOnlyIfExtracted ==
    Terminal =>
        /\ status = 0 =>
            ("kernel" \in DOMAIN files /\ "ramdisk.img" \in DOMAIN files /\ InfoComplete)
        /\ pc = "Failed" => status # 0

(***************************************************************************)
(* C9                                                                      *)
(***************************************************************************)
\* C9: when the delegated strategy reports failure and the self-contained
\* parser is about to run, the output directory holds no file; once the
\* delegated strategy has written, the self-contained parser never runs;
\* the files of a finished run are all from one strategy.
C9_OneWriter ==
    variant = "dual" =>
        /\ pc = "TrySelfParsed" => (delegated \in DelegatedFailures /\ NothingWritten)
        /\ delegated = "ok" =>
            (pc = "Extracted" /\ ~offs.computed /\ err = "none"
             /\ DOMAIN files \subseteq {"kernel", "ramdisk.img", "bootimg.cfg"})
        /\ delegated \in DelegatedFailures =>
            DOMAIN files \subseteq {"kernel", "ramdisk.img", "second", "dt.img"}

C9_Witness ==
    /\ variant = "dual"
    /\ pc = "Extracted"
    /\ delegated = "absent"
    /\ "kernel" \in DOMAIN files
    /\ "bootimg.cfg" \notin DOMAIN files

(***************************************************************************)
(* C10                                                                     *)
(***************************************************************************)
\* C10: for an image whose word at offset 40 is a header version (v1+,
\* non-zero), the self-contained parser does not use the value as a
\* device-tree size: no dt.img is extracted, bootimg.info does not report
\* it as dt_size, and never reports one raw value under both dt_size and
\* header_version.
C10_FieldHasOneMeaning ==
    (pc = "Extracted" /\ SelfParserRan /\ img.layout = "v1" /\ img.words[9] > 0) =>
        /\ "dt.img" \notin DOMAIN files
        /\ InfoVal("dt_size") # Dec(img.words[9])
        /\ ~(InfoVal("dt_size") = Dec(img.words[9])
             /\ InfoVal("header_version") = Dec(img.words[9]))

====
